---- MODULE Spec2Model ----
(***************************************************************************)
(* Push-to-talk session controller of the settings app (App component):    *)
(* the settings record, the ptt:stateChanged listener, the capture phase,  *)
(* the media refs and, per capture session, the recorder and the           *)
(* asynchronous chain run by the recorder's onstop handler.                *)
(*                                                                         *)
(* React semantics the model keeps: startRecording is a closure of the     *)
(* render that created it.  The press control always holds the closure of  *)
(* the latest render; the ptt:stateChanged listener holds the closure of   *)
(* the render in which `settings` last changed (effect deps [settings]).   *)
(* A session's onstop handler reads the `settings` of the closure that     *)
(* opened the session.  State changes are rendered before the next event   *)
(* is handled.                                                             *)
(*                                                                         *)
(* The transcript panel (interimText, finalText and its Clear, Copy and    *)
(* Paste buttons) is display state beside the session chain and is left    *)
(* out.                                                                    *)
(*                                                                         *)
(* The settings_update calls in flight and the backend's copy of the       *)
(* record (net), and the record of stops issued (stopIssued), are followed *)
(* by the specifications that start them tracked (PersistSpec, PressSpec); *)
(* in the others they start untracked and the handlers leave them so.      *)
(*                                                                         *)
(* Two components beside App are followed by specifications of their own:  *)
(* the KeysPanel component with the key vault behind it (keys, KeysSpec)   *)
(* and the Android voice keyboard (ime, ImeSpec).  Unmounting the panel    *)
(* by closing its accordion is left out.                                   *)
(*                                                                         *)
(* The repository's other programs have theirs as well: the service        *)
(* worker with the cache it reads (sw, SwSpec), the countdown timer        *)
(* (timer, TimerSpec) and the Pomodoro timer (pomo), the two timers        *)
(* together in TimersSpec.  The timers count real seconds: a pomodoro is   *)
(* 1500 ticks.                                                             *)
(***************************************************************************)
EXTENDS Integers, Sequences, FiniteSets, TLC

\* Bound of the model: capture sessions opened in one run.
MaxSessions == 2

\* Bound of StoreSpec: capture sessions opened beside the settings store.
StoreSessions == 1

\* Bound of PersistSpec: update calls whose settings_update is followed.
MaxUpdates == 2

Sessions == 1..MaxSessions
NoSession == 0

\* The settings keys the capture flow depends on (AppSettings has more keys,
\* all handled the same way by load and update).
Keys == {"enableGemini", "autoClearClipboard"}

DEFAULTS == [k \in Keys |-> TRUE]

\* Every record a backend can answer settings_get with: any subset of keys.
PartialRecords == UNION {[D -> BOOLEAN] : D \in SUBSET Keys}

\* Mutant: the spread is written the other way round, { ...over, ...base }.
MergeBaseWins(base, over) ==
  [k \in (DOMAIN base) \cup (DOMAIN over) |->
     IF k \in DOMAIN base THEN base[k] ELSE over[k]]

\* Mutant: the record is replaced by the partial, setSettings(over).
MergeOverOnly(base, over) == over

\* { ...base, ...over }
Merge(base, over) ==
  [k \in (DOMAIN base) \cup (DOMAIN over) |->
     IF k \in DOMAIN over THEN over[k] ELSE base[k]]

\* Values returned by the backend calls.
NoText == "none"
Transcripts == {"t1"}
Formatted == {"f1"}

\* nlp_gemini_format is opaque: it may rewrite the text or hand it back
\* (the browser preview fallback returns payload.text).
FormatResults(text) == Formatted \cup {text}

VARIABLES
  settings,          \* useState(DEFAULTS)
  loading,           \* useState(true)
  pttState,          \* useState('idle')
  listener,          \* closure held by the ptt:stateChanged listener
  mediaStreamRef,    \* session whose stream the ref holds, or NoSession
  mediaRecorderRef,  \* session whose recorder the ref holds, or NoSession
  audioChunksRef,    \* the chunk buffer
  nSess,             \* sessions opened so far
  sess,              \* per session: stream, recorder, chain
  net,               \* settings_update calls in flight, the backend's record
  stopIssued,        \* history: a stop was issued in the current recording
  keys,              \* the KeysPanel component and the key vault behind it
  ime,               \* the Android voice keyboard
  sw,                \* the service worker and the cache it reads
  timer,             \* the countdown timer widget (Timer)
  pomo               \* the Pomodoro timer widget (ProgrammerTimer)

vars == <<settings, loading, pttState, listener, mediaStreamRef,
          mediaRecorderRef, audioChunksRef, nSess, sess, net, stopIssued,
          keys, ime, sw, timer, pomo>>

\* The components beside the App component's own state.
widgets == <<sw, timer, pomo>>
elsewhere == <<keys, ime, widgets>>

settingsVars == <<settings, loading, listener, net>>
captureVars == <<pttState, mediaStreamRef, mediaRecorderRef, audioChunksRef,
                 nSess, sess, stopIssued>>

\* A history a specification does not track holds Untracked for ever.
Untracked == "untracked"
Track(x, v) == IF x = Untracked THEN x ELSE v

\* The settings_update calls of a tracked run: every partial sent, in
\* order (calls), the numbers of those not yet answered (inflight), the
\* keys the backend has written (backend), and the numbers of the calls it
\* applied, in the order it applied them (order), and of those it rejected.
NetInit(tracked) ==
  [tracked |-> tracked, calls |-> <<>>, inflight |-> {},
   backend |-> [k \in {} |-> TRUE], order |-> <<>>, failed |-> {}]

NoSess ==
  [cfg |-> DEFAULTS, media |-> "unused", tracks |-> "none", rec |-> "none",
   pc |-> "none", blob |-> <<>>, sttArg |-> <<>>,
   stt |-> NoText, fmtArg |-> NoText, formatted |-> NoText,
   clipArg |-> NoText, log |-> <<>>]

\* The KeysPanel component and the key vault behind keys_get / keys_set.
\* Texts are what a user can have in an input field; Stored is a secret the
\* vault held before the panel was opened.
Typed == "typed"
Stored == "stored"
Texts == {"", Typed}
Secrets == {"", Stored}

\* The panel before its effect has run: useState(false), useState('').
\* get is the keys_get call, answer its payload, saves the save() calls in
\* the order of their clicks, each with the values its closure captured.
\* typed and bySave are histories: the text typed into each field since it
\* was last cleared, and the fields a completed save reported as set.
KeysPanelInit(vault) ==
  [mounted |-> FALSE,
   hasGroq |-> FALSE, hasGemini |-> FALSE, groq |-> "", gemini |-> "",
   get |-> "none", answer |-> [hasGroq |-> "undefined", hasGemini |-> "undefined"],
   saves |-> <<>>,
   vault |-> vault,
   typed |-> [groq |-> "", gemini |-> ""],
   bySave |-> {}]

KeysInit == KeysPanelInit([groqApiKey |-> "", geminiApiKey |-> ""])

\* The Android voice keyboard before onCreateInputView: no view, the
\* recognizer not listening, no input connection.  committed is what the
\* input connections have been given, events the recognizer callbacks
\* delivered so far.
NoConnection == "null"
ImeInit ==
  [created |-> FALSE, destroyed |-> FALSE, pressed |-> FALSE,
   listening |-> FALSE,
   preview |-> [kind |-> "text", text |-> ""],
   conn |-> NoConnection, committed |-> <<>>, events |-> <<>>]

\* The service worker before its install event: the cache 'ptt-cache-v1'
\* as it is (cache0 remembers it), no fetch event handled yet.
SwInit(cache) ==
  [state |-> "parsed", cache |-> cache, cache0 |-> cache, reqs |-> <<>>]

\* What parseInt gives for text that is no number.  The model's numbers are
\* integers, and NaN is an integer no computation of the timers reaches;
\* the operators on numbers below treat it as JavaScript treats NaN.
NaN == -1000000

\* Timer after its constructor: the markup's buttons and inputs enabled,
\* the inputs empty.  live counts the intervals the browser has running,
\* notified the calls of showNotification.
TimerInit ==
  [timeLeft |-> 0, totalTime |-> 0, isRunning |-> FALSE, interval |-> FALSE,
   live |-> 0, notified |-> 0,
   startDisabled |-> FALSE, pauseDisabled |-> FALSE, inputsDisabled |-> FALSE,
   minuteInput |-> "", secondInput |-> ""]

\* localStorage without the key 'programmerTimerStats'.
NoStats == [date |-> "none", focusTime |-> 0, completedSessions |-> 0]

\* ProgrammerTimer after its constructor, loadStats included: statistics
\* saved today are taken over (loaded remembers which).
PomoInit(storage) ==
  [timeLeft |-> 25 * 60, totalTime |-> 25 * 60, isRunning |-> FALSE,
   interval |-> FALSE, live |-> 0,
   currentMode |-> "pomodoro", sessionCount |-> 1,
   completedSessions |-> IF storage.date = "today"
                         THEN storage.completedSessions ELSE 0,
   todayFocusTime |-> IF storage.date = "today" THEN storage.focusTime ELSE 0,
   startDisabled |-> FALSE, pauseDisabled |-> FALSE, skipDisabled |-> FALSE,
   inputsDisabled |-> FALSE, minuteInput |-> "", secondInput |-> "",
   storage |-> storage,
   loaded |-> IF storage.date = "today"
              THEN [focusTime |-> storage.focusTime,
                    completedSessions |-> storage.completedSessions]
              ELSE [focusTime |-> 0, completedSessions |-> 0]]

WidgetsInit ==
  /\ sw = SwInit({})
  /\ timer = TimerInit
  /\ pomo = PomoInit(NoStats)

\* The App component after construction.
AppInit ==
  /\ settings = DEFAULTS
  /\ loading = TRUE
  /\ pttState = "idle"
  /\ listener = [ptt |-> "idle", settings |-> DEFAULTS]
  /\ mediaStreamRef = NoSession
  /\ mediaRecorderRef = NoSession
  /\ audioChunksRef = <<>>
  /\ nSess = 0
  /\ sess = [s \in Sessions |-> NoSess]

Init ==
  /\ AppInit
  /\ net = NetInit(FALSE)
  /\ stopIssued = Untracked
  /\ keys = KeysInit
  /\ ime = ImeInit
  /\ WidgetsInit

----------------------------------------------------------------------------
\* Settings store

\* The effect with deps [settings] re-registers the listener with the
\* startRecording of the render that follows a settings change.
Relisten(next) == [ptt |-> pttState, settings |-> next]

\* settings_get resolved with s.
SettingsLoaded(s) ==
  /\ loading
  /\ settings' = Merge(DEFAULTS, s)
  /\ loading' = FALSE
  /\ listener' = Relisten(settings')
  /\ UNCHANGED <<pttState, mediaStreamRef, mediaRecorderRef, audioChunksRef,
                 nSess, sess, net, stopIssued, elsewhere>>

\* Mutant: a failed load blanks the record.
SettingsLoadFailedBlank ==
  /\ loading
  /\ loading' = FALSE
  /\ settings' = [k \in Keys |-> FALSE]
  /\ UNCHANGED <<pttState, listener, mediaStreamRef,
                 mediaRecorderRef, audioChunksRef, nSess, sess, net, stopIssued, elsewhere>>

\* settings_get rejected.
SettingsLoadFailed ==
  /\ loading
  /\ loading' = FALSE
  /\ UNCHANGED <<settings, pttState, listener, mediaStreamRef,
                 mediaRecorderRef, audioChunksRef, nSess, sess, net, stopIssued, elsewhere>>

\* invoke('settings_update', { partial }): one more call in flight.
Send(n, partial) ==
  IF ~n.tracked THEN n
  ELSE [n EXCEPT !.calls = Append(@, partial),
                 !.inflight = @ \cup {Len(n.calls) + 1}]

\* A tracked run makes MaxUpdates calls.
CanSend(n) == n.tracked => Len(n.calls) < MaxUpdates

\* Mutant: the record is replaced only by what the backend answers, so
\* the handler itself leaves it as it is.
UpdateAwaitsBackend(seen, partial) ==
  /\ ~loading /\ CanSend(net)
  /\ settings' = settings
  /\ listener' = Relisten(settings')
  /\ net' = Send(net, partial)
  /\ UNCHANGED <<loading, pttState, mediaStreamRef, mediaRecorderRef,
                 audioChunksRef, nSess, sess, stopIssued, elsewhere>>

\* Mutant: the update is merged over the defaults.
UpdateOverDefaults(seen, partial) ==
  /\ ~loading /\ CanSend(net)
  /\ settings' = Merge(DEFAULTS, partial)
  /\ listener' = Relisten(settings')
  /\ net' = Send(net, partial)
  /\ UNCHANGED <<loading, pttState, mediaStreamRef, mediaRecorderRef,
                 audioChunksRef, nSess, sess, stopIssued, elsewhere>>

\* Mutant: an update waits until the earlier settings_update calls have
\* been answered.
UpdateWaitsForPersist(seen, partial) ==
  /\ ~loading /\ CanSend(net)
  /\ net.inflight = {}
  /\ settings' = Merge(seen, partial)
  /\ listener' = Relisten(settings')
  /\ net' = Send(net, partial)
  /\ UNCHANGED <<loading, pttState, mediaStreamRef, mediaRecorderRef,
                 audioChunksRef, nSess, sess, stopIssued, elsewhere>>

\* update(partial), a closure over the `settings` of its render (seen):
\* setSettings is called before settings_update is invoked, and nothing is
\* attached to the call but a catch that swallows its rejection.
Update(seen, partial) ==
  /\ ~loading /\ CanSend(net)
  /\ settings' = Merge(seen, partial)
  /\ listener' = Relisten(settings')
  /\ net' = Send(net, partial)
  /\ UNCHANGED <<loading, pttState, mediaStreamRef, mediaRecorderRef,
                 audioChunksRef, nSess, sess, stopIssued, elsewhere>>

\* A Toggle hands update the negation of the value it shows.
ToggleUpdates == {[x \in {k} |-> ~settings[k]] : k \in Keys}

settingsFrame == <<settings, loading, listener>>

\* Mutant: a rejected settings_update takes the update back.
PersistFailedRollsBack(c) ==
  /\ c \in net.inflight
  /\ net' = [net EXCEPT !.inflight = @ \ {c}, !.failed = @ \cup {c}]
  /\ settings' = [k \in DOMAIN settings |->
                    IF k \in DOMAIN net.calls[c] THEN ~net.calls[c][k]
                    ELSE settings[k]]
  /\ UNCHANGED <<loading, listener, captureVars, elsewhere>>

\* settings_update rejected: .catch(() => {}) and nothing else.
PersistFailed(c) ==
  /\ c \in net.inflight
  /\ net' = [net EXCEPT !.inflight = @ \ {c}, !.failed = @ \cup {c}]
  /\ UNCHANGED <<settingsFrame, captureVars, elsewhere>>

\* settings_update applied by the backend and answered: the calls are
\* independent promises, so the backend takes them in any order; nothing
\* is attached to the answer.
PersistApplied(c) ==
  /\ c \in net.inflight
  /\ net' = [net EXCEPT !.inflight = @ \ {c},
                        !.backend = Merge(@, net.calls[c]),
                        !.order = Append(@, c)]
  /\ UNCHANGED <<settingsFrame, captureVars, elsewhere>>

----------------------------------------------------------------------------
\* Capture controller: start and stop

\* if (pttState !== 'idle') return  -- pttState is the closure's value
StartGuard(seenPtt) == seenPtt = "idle"

\* Mutant: an accepted start leaves the phase as it is.
OpenSessionKeepsPhase(seenSettings) ==
  /\ nSess < MaxSessions
  /\ nSess' = nSess + 1
  /\ sess' = [sess EXCEPT ![nSess + 1] =
                [NoSess EXCEPT !.cfg = seenSettings, !.media = "pending"]]
  /\ stopIssued' = Track(stopIssued, "no")
  /\ UNCHANGED <<pttState, mediaStreamRef, mediaRecorderRef, audioChunksRef>>

\* startRecording up to its first await: the phase is set and getUserMedia
\* is requested; the session keeps the closure's settings for its onstop.
OpenSession(seenSettings) ==
  /\ nSess < MaxSessions
  /\ nSess' = nSess + 1
  /\ pttState' = "recording"
  /\ sess' = [sess EXCEPT ![nSess + 1] =
                [NoSess EXCEPT !.cfg = seenSettings, !.media = "pending"]]
  /\ stopIssued' = Track(stopIssued, "no")
  /\ UNCHANGED <<mediaStreamRef, mediaRecorderRef, audioChunksRef>>

StartRecording(seenPtt, seenSettings) ==
  /\ IF StartGuard(seenPtt)
       THEN OpenSession(seenSettings)
       ELSE UNCHANGED captureVars
  /\ UNCHANGED <<settingsVars, elsewhere>>

\* The press control is rendered once loading is over and is disabled
\* unless the phase is idle or recording.
ButtonEnabled == ~loading /\ pttState \in {"idle", "recording"}

\* onMouseDown / onTouchStart: the closure of the latest render.
LocalStart == ButtonEnabled /\ StartRecording(pttState, settings)

\* ptt:stateChanged with payload 'recording': the listener's closure.
RemoteRecording == StartRecording(listener.ptt, listener.settings)

\* getUserMedia resolved: refs are overwritten, the buffer is reset, the
\* recorder is created and started.
MediaGranted(s) ==
  /\ sess[s].media = "pending"
  /\ mediaStreamRef' = s
  /\ mediaRecorderRef' = s
  /\ audioChunksRef' = <<>>
  /\ sess' = [sess EXCEPT ![s].media = "granted", ![s].tracks = "live",
                          ![s].rec = "recording"]
  /\ UNCHANGED <<pttState, nSess, stopIssued>>
  /\ UNCHANGED <<settingsVars, elsewhere>>

\* getUserMedia rejected: startRecording has no handler for the rejection.
MediaDenied(s) ==
  /\ sess[s].media = "pending"
  /\ sess' = [sess EXCEPT ![s].media = "denied"]
  /\ UNCHANGED <<pttState, mediaStreamRef, mediaRecorderRef, audioChunksRef,
                 nSess, stopIssued>>
  /\ UNCHANGED <<settingsVars, elsewhere>>

\* stopRecording reads only the refs; t.stop() ends a live track.  stop()
\* on a recorder that is no longer recording does nothing in some browsers
\* and throws InvalidStateError in others (`throws`); when it throws, the
\* line that stops the tracks is not reached.
StopRecording(throws) ==
  /\ sess' = [s \in Sessions |->
       LET a == IF s = mediaRecorderRef /\ sess[s].rec = "recording"
                  THEN [sess[s] EXCEPT !.rec = "stopping"]
                  ELSE sess[s]
           thrown == /\ throws
                     /\ mediaRecorderRef # NoSession
                     /\ sess[mediaRecorderRef].rec # "recording"
       IN  IF s = mediaStreamRef /\ a.tracks = "live" /\ ~thrown
             THEN [a EXCEPT !.tracks = "ended"]
             ELSE a]
  /\ stopIssued' = Track(stopIssued, IF pttState = "recording" THEN "yes"
                                      ELSE stopIssued)
  /\ UNCHANGED <<pttState, mediaStreamRef, mediaRecorderRef, audioChunksRef,
                 nSess>>
  /\ UNCHANGED <<settingsVars, elsewhere>>

\* onMouseUp / onTouchEnd / the Stop button.
LocalStop == ButtonEnabled /\ \E throws \in BOOLEAN : StopRecording(throws)

\* ptt:stateChanged with payload 'processing'.
RemoteProcessing == \E throws \in BOOLEAN : StopRecording(throws)

\* The platform ends the stream's tracks (device removed): the recorder
\* stops on its own.
TrackEnded(s) ==
  /\ sess[s].tracks = "live"
  /\ sess' = [sess EXCEPT ![s].tracks = "ended",
                          ![s].rec = IF @ = "recording" THEN "stopping" ELSE @]
  /\ UNCHANGED <<pttState, mediaStreamRef, mediaRecorderRef, audioChunksRef,
                 nSess, stopIssued>>
  /\ UNCHANGED <<settingsVars, elsewhere>>

\* The recorder fails (MediaRecorder error event) and stops on its own;
\* the stream's tracks are not touched.
RecorderError(s) ==
  /\ sess[s].rec = "recording"
  /\ sess' = [sess EXCEPT ![s].rec = "stopping"]
  /\ UNCHANGED <<pttState, mediaStreamRef, mediaRecorderRef, audioChunksRef,
                 nSess, stopIssued>>
  /\ UNCHANGED <<settingsVars, elsewhere>>

----------------------------------------------------------------------------
\* Capture controller: the chain of mr.onstop

\* log entries: <<command, "call">> when a backend command is invoked,
\* <<command, "ok">> / <<command, "err">> when its promise settles.
Call(op) == <<op, "call">>
Ok(op) == <<op, "ok">>
Err(op) == <<op, "err">>

chainFrame == <<mediaStreamRef, mediaRecorderRef, audioChunksRef, nSess,
                stopIssued>>

\* blobToBase64: the payload is the base64 text of the blob's bytes.
Base64(blob) == <<"b64", blob>>

\* mr.ondataavailable: a chunk of size > 0 is pushed on the shared buffer.
Push(buffer, s, nonEmpty) == IF nonEmpty THEN Append(buffer, s) ELSE buffer

\* The recorder was started without a timeslice, so it hands over what it
\* recorded once, when it stops: one task fires dataavailable and then
\* stop.  onstop sets the phase, copies the buffer into a blob and awaits
\* its encoding; the buffer itself is left as it is.
OnStop(s, nonEmpty) ==
  /\ sess[s].rec = "stopping"
  /\ audioChunksRef' = Push(audioChunksRef, s, nonEmpty)
  /\ pttState' = "processing"
  /\ sess' = [sess EXCEPT ![s].rec = "inactive", ![s].pc = "encoding",
                          ![s].blob = audioChunksRef']
  /\ UNCHANGED <<mediaStreamRef, mediaRecorderRef, nSess, stopIssued>>
  /\ UNCHANGED <<settingsVars, elsewhere>>

\* The handler has returned or thrown: its locals and the settings of its
\* closure are never read again, the record keeps the outcome and the log.
Finished(sr, outcome, log) ==
  [NoSess EXCEPT !.media = sr.media, !.tracks = sr.tracks, !.rec = sr.rec,
                 !.pc = outcome, !.log = log]

\* A rejected await ends the handler: nothing after it runs.
Abort(s, op) ==
  /\ sess' = [sess EXCEPT ![s] = Finished(@, "failed", Append(@.log, Err(op)))]
  /\ UNCHANGED pttState

\* The `settings` in the payload of stt_transcribe_once and of
\* nlp_gemini_format: the record of the closure that opened the session.
SettingsArg(sr) == sr.cfg

\* blobToBase64 settled; on success stt_transcribe_once is invoked with the
\* encoded blob, and the blob is not read again.
EncodeDone(s, ok) ==
  /\ sess[s].pc = "encoding"
  /\ IF ok
       THEN /\ sess' = [sess EXCEPT ![s].pc = "stt",
                                    ![s].sttArg = Base64(sess[s].blob),
                                    ![s].blob = <<>>,
                                    ![s].log = Append(@, Call("stt"))]
            /\ UNCHANGED pttState
       ELSE /\ sess' = [sess EXCEPT ![s] = Finished(@, "failed", @.log)]
            /\ UNCHANGED pttState
  /\ UNCHANGED chainFrame
  /\ UNCHANGED <<settingsVars, elsewhere>>

\* stt_transcribe_once settled; on success nlp_gemini_format is invoked
\* with the transcript, whatever the settings say; the payload of the
\* transcription is not read again.
SttReturn(s, ok, text) ==
  /\ sess[s].pc = "stt"
  /\ IF ok
       THEN /\ sess' = [sess EXCEPT ![s].pc = "fmt", ![s].stt = text,
                                    ![s].sttArg = <<>>,
                                    ![s].fmtArg = text,
                                    ![s].log = @ \o <<Ok("stt"), Call("fmt")>>]
            /\ UNCHANGED pttState
       ELSE Abort(s, "stt")
  /\ UNCHANGED chainFrame
  /\ UNCHANGED <<settingsVars, elsewhere>>

\* Mutant: the transcript itself is handed to clipboard_set.
ClipboardTextRaw(sr) == sr.stt

\* The argument of clipboard_set.
ClipboardText(sr) == sr.formatted

\* Mutant: clipboard_set is not awaited, input_paste is invoked with it.
ClipSetNotAwaited(s, ok, text) ==
  /\ sess[s].pc = "fmt"
  /\ IF ok
       THEN /\ sess' = [sess EXCEPT ![s] =
                 LET sr == [sess[s] EXCEPT !.formatted = text]
                 IN  [sr EXCEPT !.pc = "paste", !.clipArg = ClipboardText(sr),
                                !.log = @ \o <<Ok("fmt"), Call("clip"),
                                               Call("paste")>>]]
            /\ UNCHANGED pttState
       ELSE Abort(s, "fmt")
  /\ UNCHANGED chainFrame
  /\ UNCHANGED <<settingsVars, elsewhere>>

\* nlp_gemini_format settled; on success clipboard_set is invoked.
FmtReturn(s, ok, text) ==
  /\ sess[s].pc = "fmt"
  /\ IF ok
       THEN /\ sess' = [sess EXCEPT ![s] =
                 LET sr == [sess[s] EXCEPT !.formatted = text]
                 IN  [sr EXCEPT !.pc = "clip", !.clipArg = ClipboardText(sr),
                                !.log = @ \o <<Ok("fmt"), Call("clip")>>]]
            /\ UNCHANGED pttState
       ELSE Abort(s, "fmt")
  /\ UNCHANGED chainFrame
  /\ UNCHANGED <<settingsVars, elsewhere>>

\* clipboard_set settled; on success input_paste is invoked.
ClipSetReturn(s, ok) ==
  /\ sess[s].pc = "clip"
  /\ IF ok
       THEN /\ sess' = [sess EXCEPT ![s].pc = "paste",
                                    ![s].log = @ \o <<Ok("clip"), Call("paste")>>]
            /\ UNCHANGED pttState
       ELSE Abort(s, "clip")
  /\ UNCHANGED chainFrame
  /\ UNCHANGED <<settingsVars, elsewhere>>

\* Mutant: the clipboard is cleared whatever the flag says.
ShouldClearAlways(cfg) == TRUE

\* if (settings.autoClearClipboard)  -- settings is the closure's record
ShouldClear(cfg) == cfg["autoClearClipboard"]

\* Mutant: a chain that skips clipboard_clear ends without setting the phase.
PasteReturnNoIdle(s, ok) ==
  /\ sess[s].pc = "paste"
  /\ IF ok
       THEN IF ShouldClear(sess[s].cfg)
              THEN /\ sess' = [sess EXCEPT ![s].pc = "clear",
                                 ![s].log = @ \o <<Ok("paste"), Call("clear")>>]
                   /\ UNCHANGED pttState
              ELSE /\ sess' = [sess EXCEPT ![s] =
                                   Finished(@, "done", Append(@.log, Ok("paste")))]
                   /\ UNCHANGED pttState
       ELSE Abort(s, "paste")
  /\ UNCHANGED chainFrame
  /\ UNCHANGED <<settingsVars, elsewhere>>

\* input_paste settled; on success either clipboard_clear is invoked or
\* the phase returns to idle.
PasteReturn(s, ok) ==
  /\ sess[s].pc = "paste"
  /\ IF ok
       THEN IF ShouldClear(sess[s].cfg)
              THEN /\ sess' = [sess EXCEPT ![s].pc = "clear",
                                 ![s].log = @ \o <<Ok("paste"), Call("clear")>>]
                   /\ UNCHANGED pttState
              ELSE /\ sess' = [sess EXCEPT ![s] =
                                   Finished(@, "done", Append(@.log, Ok("paste")))]
                   /\ pttState' = "idle"
       ELSE Abort(s, "paste")
  /\ UNCHANGED chainFrame
  /\ UNCHANGED <<settingsVars, elsewhere>>

\* Mutant: the rejection of clipboard_clear is not caught.
ClearReturnUncaught(s, ok) ==
  /\ sess[s].pc = "clear"
  /\ IF ok
       THEN /\ sess' = [sess EXCEPT ![s] =
                        Finished(@, "done", Append(@.log, Ok("clear")))]
            /\ pttState' = "idle"
       ELSE Abort(s, "clear")
  /\ UNCHANGED chainFrame
  /\ UNCHANGED <<settingsVars, elsewhere>>

\* clipboard_clear settled: .catch(() => {}) turns a rejection into a
\* normal completion, and the phase returns to idle.
ClearReturn(s, ok) ==
  /\ sess[s].pc = "clear"
  /\ sess' = [sess EXCEPT ![s] =
                 Finished(@, "done", Append(@.log, IF ok THEN Ok("clear")
                                                         ELSE Err("clear")))]
  /\ pttState' = "idle"
  /\ UNCHANGED chainFrame
  /\ UNCHANGED <<settingsVars, elsewhere>>

----------------------------------------------------------------------------
Load == \E s \in PartialRecords : SettingsLoaded(s)
\* Mutant: the controls keep the update of the first render.
ToggleStale == \E p \in ToggleUpdates : Update(DEFAULTS, p)

\* A control calls the update of the latest render: React commits the
\* render of a discrete event before the next event is dispatched.
Toggle == \E p \in ToggleUpdates : Update(settings, p)
Granted == \E s \in Sessions : MediaGranted(s)
Denied == \E s \in Sessions : MediaDenied(s)
Ended == \E s \in Sessions : TrackEnded(s)
Errored == \E s \in Sessions : RecorderError(s)
Stopped == \E s \in Sessions, nonEmpty \in BOOLEAN : OnStop(s, nonEmpty)
Encoded == \E s \in Sessions, ok \in BOOLEAN : EncodeDone(s, ok)
Transcribed ==
  \E s \in Sessions, ok \in BOOLEAN, text \in Transcripts : SttReturn(s, ok, text)
Formatting ==
  \E s \in Sessions, ok \in BOOLEAN :
    \E text \in FormatResults(sess[s].stt) : FmtReturn(s, ok, text)
ClipSet == \E s \in Sessions, ok \in BOOLEAN : ClipSetReturn(s, ok)
Pasted == \E s \in Sessions, ok \in BOOLEAN : PasteReturn(s, ok)
Cleared == \E s \in Sessions, ok \in BOOLEAN : ClearReturn(s, ok)

Next ==
  \/ Load
  \/ SettingsLoadFailed
  \/ Toggle
  \/ LocalStart
  \/ RemoteRecording
  \/ Granted
  \/ Denied
  \/ LocalStop
  \/ RemoteProcessing
  \/ Ended
  \/ Errored
  \/ Stopped
  \/ Encoded
  \/ Transcribed
  \/ Formatting
  \/ ClipSet
  \/ Pasted
  \/ Cleared

Spec == Init /\ [][Next]_vars

\* The promise the handler of s awaits settles, and the event loop runs the
\* task that resumes the handler.
ChainStep(s) ==
  \/ \E ok \in BOOLEAN : EncodeDone(s, ok)
  \/ \E ok \in BOOLEAN, text \in Transcripts : SttReturn(s, ok, text)
  \/ \E ok \in BOOLEAN : \E text \in FormatResults(sess[s].stt) : FmtReturn(s, ok, text)
  \/ \E ok \in BOOLEAN : ClipSetReturn(s, ok)
  \/ \E ok \in BOOLEAN : PasteReturn(s, ok)
  \/ \E ok \in BOOLEAN : ClearReturn(s, ok)

\* A handler waiting for an answer is resumed in the end.
FairSpec == Spec /\ WF_vars(\E s \in Sessions : ChainStep(s))

----------------------------------------------------------------------------
\* Properties of the capture controller

InLog(s, e) == \E i \in DOMAIN sess[s].log : sess[s].log[i] = e

\* An open stream with an active recorder.
Recording(s) == sess[s].tracks = "live" /\ sess[s].rec = "recording"

\* The onstop handler of s has started and has neither returned nor thrown.
InChain(s) == sess[s].pc \in {"encoding", "stt", "fmt", "clip", "paste", "clear"}

Busy == pttState \in {"recording", "processing"}

\* C1: a start invoked while the phase is recording or processing, from the
\* press control or from a 'recording' notification, is a no-op: no session
\* is opened (no stream requested, no recorder created) and the phase and
\* the refs stay as they are.
C1_StartWhileBusyIsNoOp ==
  [][((LocalStart \/ RemoteRecording) /\ Busy) => UNCHANGED captureVars]_vars

\* C2: at every moment at most one session is recording and at most one
\* chain is in flight.
C2_AtMostOneInFlight ==
  /\ Cardinality({s \in Sessions : Recording(s)}) <= 1
  /\ Cardinality({s \in Sessions : InChain(s)}) <= 1

\* C3: a 'recording' notification does what a local start does in the
\* current phase with the current settings, and a 'processing' notification
\* does what a local stop does.
C3_RemoteEqualsLocal ==
  [][/\ RemoteRecording => StartRecording(pttState, settings)
     /\ RemoteProcessing => \E throws \in BOOLEAN : StopRecording(throws)]_vars

\* C4: in a cycle whose settings have enableGemini false, nlp_gemini_format
\* is never invoked and clipboard_set receives the string returned by
\* stt_transcribe_once.
C4_NoFormatWhenDisabled ==
  \A s \in Sessions :
    (InChain(s) /\ ~sess[s].cfg["enableGemini"]) =>
      /\ ~InLog(s, Call("fmt"))
      /\ InLog(s, Call("clip")) => sess[s].clipArg = sess[s].stt

LastEntry(s) == sess[s].log[Len(sess[s].log)]

\* C6: clipboard_clear is invoked in a cycle exactly when input_paste of that
\* cycle has returned and the cycle's settings have autoClearClipboard true:
\* it is invoked at no other point, and with the flag false it is not
\* invoked at all.
C6_ClearFollowsPasteIffFlag ==
  [][\A s \in Sessions :
       IF sess[s].pc = "paste" /\ sess'[s].pc # "paste"
         THEN InLog(s, Call("clear"))' <=>
                (sess[s].cfg["autoClearClipboard"] /\ InLog(s, Ok("paste"))')
         ELSE InLog(s, Call("clear"))' <=> InLog(s, Call("clear"))]_vars

\* One cycle is past its paste with clipboard_clear invoked, another has
\* completed without invoking it.
C6_Witness ==
  \E s, u \in Sessions :
    /\ InLog(s, Ok("paste")) /\ InLog(s, Call("clear"))
    /\ sess[u].pc = "done" /\ InLog(u, Ok("paste")) /\ ~InLog(u, Call("clear"))

\* The commands of the chain, in program order.
ChainOrder == <<"stt", "fmt", "clip", "paste", "clear">>

\* Each command is invoked right after the one before it has returned, and
\* a settled promise is the one invoked last; nothing follows a rejection
\* except that of clipboard_clear.
LogInOrder(log) ==
  \A i \in DOMAIN log :
    /\ log[i][2] = "call" =>
         IF i = 1 THEN log[i][1] = "stt"
         ELSE \E k \in 2..Len(ChainOrder) :
                log[i][1] = ChainOrder[k] /\ log[i - 1] = Ok(ChainOrder[k - 1])
    /\ log[i][2] # "call" => i > 1 /\ log[i - 1] = Call(log[i][1])
    /\ log[i][2] = "err" => i = Len(log)

\* C7: the chain invokes stt_transcribe_once, nlp_gemini_format,
\* clipboard_set and input_paste in this order, each after the one before
\* has returned, and a chain sets the phase to idle only when its
\* input_paste has returned and its clipboard_clear, if invoked, has settled.
C7_ChainInOrder ==
  [][/\ \A s \in Sessions : LogInOrder(sess[s].log)'
     /\ (pttState # "idle" /\ pttState' = "idle") =>
          \E s \in Sessions : InChain(s) /\ sess'[s].pc = "done"
     /\ \A s \in Sessions :
          (InChain(s) /\ sess'[s].pc = "done") =>
            /\ pttState' = "idle"
            /\ InLog(s, Ok("paste"))'
            /\ InLog(s, Call("clear"))' => LastEntry(s)'[1] = "clear"
            /\ LastEntry(s)'[2] # "call"]_vars

\* A chain has run to its end with clipboard_clear and left the phase idle.
C7_Witness ==
  \E s \in Sessions :
    /\ sess[s].pc = "done" /\ pttState = "idle"
    /\ sess[s].log = <<Call("stt"), Ok("stt"), Call("fmt"), Ok("fmt"),
                       Call("clip"), Ok("clip"), Call("paste"), Ok("paste"),
                       Call("clear"), Ok("clear")>>

\* C8: when getUserMedia is rejected the phase becomes error, and no new
\* acquisition is started.
C8_DeniedEntersError ==
  [][(\E s \in Sessions : MediaDenied(s)) =>
       (pttState' = "error" /\ nSess' = nSess)]_vars

\* The chain of s ended with the rejection of op.
FailedAt(s, op) == sess[s].pc = "failed" /\ InLog(s, Err(op))

\* C9: once stt_transcribe_once or nlp_gemini_format has failed, the phase
\* is processing and stays processing, and the cycle invokes neither
\* clipboard_set nor input_paste.
C9_FailedChainStaysProcessing ==
  [][\A s \in Sessions :
       (FailedAt(s, "stt") \/ FailedAt(s, "fmt")) =>
         /\ pttState = "processing" /\ pttState' = "processing"
         /\ ~InLog(s, Call("clip"))' /\ ~InLog(s, Call("paste"))']_vars

\* C10: when clipboard_clear settles, rejected or not, the handler
\* completes and sets the phase to idle; the rejection changes nothing but
\* the entry logged for it.
C10_ClearFailureIgnored ==
  [][\A s \in Sessions :
       (sess[s].pc = "clear" /\ sess'[s].pc # "clear") =>
         /\ sess'[s].pc = "done"
         /\ pttState' = "idle"
         /\ LastEntry(s)' \in {Ok("clear"), Err("clear")}
         /\ sess' = [sess EXCEPT ![s] = Finished(@, "done", sess'[s].log)]
         /\ UNCHANGED chainFrame
         /\ UNCHANGED settingsVars]_vars

\* A cycle whose clipboard_clear was rejected has completed, phase idle.
C10_Witness ==
  \E s \in Sessions :
    sess[s].pc = "done" /\ InLog(s, Err("clear")) /\ pttState = "idle"

\* C11: under fairness of the responses, every chain that has set the phase
\* to processing ends, and unless one of its awaited calls was rejected it
\* ends by setting the phase to idle.
C11_ChainReturnsToIdle ==
  \A s \in Sessions :
    (sess[s].pc = "encoding" /\ pttState = "processing") ~>
      (sess[s].pc = "failed" \/ (sess[s].pc = "done" /\ pttState = "idle"))

\* A chain that did not have to clear the clipboard has ended, phase idle.
C11_Witness ==
  \E s \in Sessions :
    /\ sess[s].pc = "done" /\ pttState = "idle"
    /\ LastEntry(s) = Ok("paste")

\* C12: whenever a session's onstop sets the phase to processing and starts
\* its chain, after an explicit stop or after the recorder stopped on its
\* own, the tracks of the session's stream have already been stopped.
C12_TracksStoppedBeforeChain ==
  [][\A s \in Sessions :
       (sess[s].pc = "none" /\ sess'[s].pc = "encoding") =>
         (pttState' = "processing" /\ sess[s].tracks = "ended")]_vars

\* C13: a start can be accepted while the chain of an earlier session is
\* still running: it opens a new session and sets the phase to recording,
\* and the running chain goes on untouched, so that a fresh recording
\* overlaps an unfinished chain (C13_Witness).
C13_StartOverlapsChain ==
  [][\A u \in Sessions :
       (InChain(u) /\ nSess' # nSess) =>
         /\ nSess' = nSess + 1
         /\ sess'[nSess'].media = "pending"
         /\ pttState' = "recording"
         /\ sess'[u] = sess[u]]_vars

\* A session is recording while the chain of an earlier one is in flight.
C13_Witness ==
  \E s, u \in Sessions : u < s /\ InChain(u) /\ Recording(s)

\* C14: a cycle invokes stt_transcribe_once once, and the payload is the
\* encoding of exactly the non-empty chunks its own recorder delivered, in
\* order: none of another session, none dropped, none twice.
C14_PayloadIsOwnChunks ==
  [][\A s \in Sessions :
       /\ \A nonEmpty \in BOOLEAN :
            OnStop(s, nonEmpty) => sess'[s].blob = Push(<<>>, s, nonEmpty)
       /\ EncodeDone(s, TRUE) =>
            /\ sess'[s].sttArg = Base64(sess[s].blob)
            /\ sess'[s].log = <<Call("stt")>>
       /\ InLog(s, Call("stt")) => sess'[s].log[1] = Call("stt")
       /\ \A i \in DOMAIN sess'[s].log :
            sess'[s].log[i] = Call("stt") => i = 1]_vars

\* C15: the chunk buffer is discarded once the blob has been assembled: it
\* is empty whenever the phase is processing or idle.
C15_BufferEmptyAfterAssembly ==
  pttState \in {"processing", "idle"} => audioChunksRef = <<>>

\* C16: the settings record handed to stt_transcribe_once and to
\* nlp_gemini_format, and the autoClearClipboard flag consulted after the
\* paste, are those of the in-memory record at the moment of the call.
C16_CallsReadCurrentSettings ==
  [][\A s \in Sessions :
       /\ (~InLog(s, Call("stt")) /\ InLog(s, Call("stt"))') =>
            SettingsArg(sess[s]) = settings
       /\ (~InLog(s, Call("fmt")) /\ InLog(s, Call("fmt"))') =>
            SettingsArg(sess[s]) = settings
       /\ (~InLog(s, Ok("paste")) /\ InLog(s, Ok("paste"))') =>
            (InLog(s, Call("clear"))' <=> settings["autoClearClipboard"])]_vars

----------------------------------------------------------------------------
\* Properties of the settings store

\* The settings store with every step of the application around it, the
\* number of capture sessions limited to StoreSessions.
StoreNext ==
  \/ Load
  \/ SettingsLoadFailed
  \/ Toggle
  \/ LocalStart /\ nSess' <= StoreSessions
  \/ RemoteRecording /\ nSess' <= StoreSessions
  \/ Granted
  \/ Denied
  \/ LocalStop
  \/ RemoteProcessing
  \/ Ended
  \/ Errored
  \/ Stopped
  \/ Encoded
  \/ Transcribed
  \/ Formatting
  \/ ClipSet
  \/ Pasted
  \/ Cleared

StoreSpec == Init /\ [][StoreNext]_vars

\* The application with the stops issued in the current recording
\* remembered.  What the program has pending is done in the end:
\* getUserMedia settles, a stopped recorder fires its events, an awaited
\* call of the chain is answered.  Presses, releases, notifications and
\* failures of the device are up to the environment.
PressInit ==
  /\ AppInit
  /\ net = NetInit(FALSE)
  /\ stopIssued = "no"
  /\ keys = KeysInit
  /\ ime = ImeInit
  /\ WidgetsInit

PressSpec ==
  /\ PressInit /\ [][StoreNext]_vars
  /\ WF_vars(Granted \/ Denied)
  /\ WF_vars(Stopped)
  /\ WF_vars(\E s \in Sessions : ChainStep(s))

\* The settings store with its settings_update calls followed to the
\* backend.
PersistInit ==
  /\ AppInit
  /\ net = NetInit(TRUE)
  /\ stopIssued = Untracked
  /\ keys = KeysInit
  /\ ime = ImeInit
  /\ WidgetsInit

Applied == \E c \in 1..MaxUpdates : PersistApplied(c)
Rejected == \E c \in 1..MaxUpdates : PersistFailed(c)

PersistNext ==
  \/ Load
  \/ SettingsLoadFailed
  \/ Toggle
  \/ Applied
  \/ Rejected

PersistSpec == PersistInit /\ [][PersistNext]_vars

\* C17: for every backend response s, empty, partial or full, the load
\* yields a record with every key of the defaults, holding the value of s
\* for each key of s and the default for every other key, and marks the
\* store ready.
C17_LoadMergesOverDefaults ==
  [][\A s \in PartialRecords :
       SettingsLoaded(s) =>
         /\ DOMAIN settings' = DOMAIN DEFAULTS
         /\ \A k \in DOMAIN DEFAULTS :
              settings'[k] = IF k \in DOMAIN s THEN s[k] ELSE DEFAULTS[k]
         /\ ~loading']_vars

\* The store after settings_get answered { enableGemini: false }: that key
\* from the backend, the other from the defaults.
C17_Witness ==
  /\ ~loading
  /\ settings = [DEFAULTS EXCEPT !["enableGemini"] = FALSE]
  /\ nSess = 0

\* C18: when settings_get fails the record is the default record, the
\* store is marked ready, and nothing else changes (no error state).
C18_LoadFailureYieldsDefaults ==
  [][SettingsLoadFailed =>
       /\ settings' = DEFAULTS
       /\ ~loading'
       /\ pttState' = pttState /\ listener' = listener]_vars

\* The store is ready with the default record, the listener is still the
\* one registered at mount, and a session is waiting for its stream.
C18_Witness ==
  /\ ~loading /\ settings = DEFAULTS
  /\ nSess = 1 /\ sess[1].media = "pending" /\ listener.ptt = "idle"

\* C19: update(p) makes the record show the values of p in the step of the
\* call itself, and the record changes at no other step than a load or an
\* update: nothing waits for, or comes from, the answer of settings_update.
C19_UpdateShowsAtOnce ==
  [][/\ \A p \in ToggleUpdates :
          Update(settings, p) => \A k \in DOMAIN p : settings'[k] = p[k]
     /\ settings' # settings => (Load \/ Toggle)]_vars

\* A chain runs for a session opened with a record that is not the default
\* one, so after the load, and the current record differs from it: an
\* update was applied since, and the record shows it.
C19_Witness ==
  \E s \in Sessions :
    /\ InChain(s)
    /\ sess[s].cfg # DEFAULTS
    /\ settings # sess[s].cfg

\* C20: update(p) changes only the keys named in p; every other key keeps
\* the value it had before the call.
C20_UpdateKeepsOtherKeys ==
  [][\A p \in ToggleUpdates :
       Update(settings, p) =>
         /\ DOMAIN settings' = DOMAIN settings
         /\ \A k \in DOMAIN settings \ DOMAIN p : settings'[k] = settings[k]]_vars

\* The record loaded with enableGemini false was current when a session
\* started; autoClearClipboard was switched off since, and enableGemini is
\* still false.
C20_Witness ==
  \E s \in Sessions :
    /\ sess[s].media = "pending"
    /\ sess[s].cfg = [DEFAULTS EXCEPT !["enableGemini"] = FALSE]
    /\ settings = [k \in Keys |-> FALSE]

\* C21: when a settings_update call fails nothing is rolled back: the
\* record, the ready flag and the phase are as before the failure, and the
\* backend has not taken the partial.
C21_PersistFailureKeepsRecord ==
  [][\A c \in 1..MaxUpdates :
       PersistFailed(c) =>
         /\ settings' = settings /\ loading' = loading
         /\ pttState' = pttState
         /\ net'.backend = net.backend /\ c \in net'.failed]_vars

\* The only call made was rejected and the record shows its values.
C21_Witness ==
  /\ Len(net.calls) = 1 /\ net.failed = {1}
  /\ \A k \in DOMAIN net.calls[1] : settings[k] = net.calls[1][k]

\* C22: in every reachable state, whatever loads and updates have run, the
\* record has every key of the defaults.
C22_RecordHasEveryKey ==
  DOMAIN DEFAULTS \subseteq DOMAIN settings

\* The load was answered with a partial record and two updates were made.
C22_Witness ==
  /\ ~loading /\ Len(net.calls) = 2
  /\ settings = [k \in Keys |-> FALSE]
  /\ DOMAIN DEFAULTS \subseteq DOMAIN settings

\* The value the last of the calls naming k gave it.
LastWrite(calls, k) ==
  LET named == {i \in DOMAIN calls : k \in DOMAIN calls[i]}
  IN  calls[CHOOSE i \in named : \A j \in named : j <= i][k]

C29_UpdateNeverWaits ==
  (net.tracked /\ ~loading /\ Len(net.calls) < MaxUpdates) => ENABLED Toggle

\* Two updates of one key were applied by the backend in the opposite
\* order, and its value differs from the record's.
C29_Witness ==
  /\ Len(net.calls) = 2 /\ net.inflight = {}
  /\ net.order = <<2, 1>>
  /\ \E k \in Keys :
       /\ DOMAIN net.calls[1] = {k} /\ DOMAIN net.calls[2] = {k}
       /\ net.backend[k] # settings[k]

----------------------------------------------------------------------------
\* The KeysPanel component

\* Bound of KeysSpec: clicks on Save.
MaxSaves == 2

appVars == <<settings, loading, pttState, listener, mediaStreamRef,
             mediaRecorderRef, audioChunksRef, nSess, sess, net, stopIssued>>

\* JavaScript's !!v for the values a payload field can hold.
Truthy(v) == v = "true"

\* JavaScript's !!s for a string.
NonEmpty(s) == s # ""

Present(b) == IF b THEN "true" ELSE "false"

\* The panel is rendered once the loading gate of App has opened; its
\* effect then sends keys_get.
KeysMounted ==
  /\ ~loading /\ ~keys.mounted
  /\ keys' = [keys EXCEPT !.mounted = TRUE, !.get = "sent"]
  /\ UNCHANGED <<appVars, ime, widgets>>

\* keys_get is answered: by a backend with what the vault holds at that
\* time, or by the preview fallback with {}.
KeysGetAnswered(preview) ==
  /\ keys.get = "sent"
  /\ keys' = [keys EXCEPT
       !.get = "answered",
       !.answer = IF preview
                  THEN [hasGroq |-> "undefined", hasGemini |-> "undefined"]
                  ELSE [hasGroq |-> Present(NonEmpty(keys.vault.groqApiKey)),
                        hasGemini |-> Present(NonEmpty(keys.vault.geminiApiKey))]]
  /\ UNCHANGED <<appVars, ime, widgets>>

\* keys_get rejects: .catch(() => {}).
KeysGetFailed ==
  /\ keys.get = "sent"
  /\ keys' = [keys EXCEPT !.get = "failed"]
  /\ UNCHANGED <<appVars, ime, widgets>>

\* The copy of the panel in src/app/src/App.tsx (lines 282-287), which has
\* no presence booleans: it puts the values keys_get returns into the input
\* fields.
KeysLoadedIntoFields ==
  /\ keys.get = "answered"
  /\ keys' = [keys EXCEPT !.get = "done",
                          !.groq = keys.vault.groqApiKey,
                          !.gemini = keys.vault.geminiApiKey]
  /\ UNCHANGED <<appVars, ime, widgets>>

\* .then((k) => { setHasGroq(!!k.hasGroq); setHasGemini(!!k.hasGemini) })
KeysLoaded ==
  /\ keys.get = "answered"
  /\ keys' = [keys EXCEPT !.get = "done",
                          !.hasGroq = Truthy(keys.answer.hasGroq),
                          !.hasGemini = Truthy(keys.answer.hasGemini)]
  /\ UNCHANGED <<appVars, ime, widgets>>

\* onChange={(e) => setGroq(e.target.value)} and the same for gemini.
TypeGroq(text) ==
  /\ keys.mounted /\ keys.groq # text
  /\ keys' = [keys EXCEPT !.groq = text, !.typed.groq = text]
  /\ UNCHANGED <<appVars, ime, widgets>>

TypeGemini(text) ==
  /\ keys.mounted /\ keys.gemini # text
  /\ keys' = [keys EXCEPT !.gemini = text, !.typed.gemini = text]
  /\ UNCHANGED <<appVars, ime, widgets>>

\* The Save button: save() of the current render sends keys_set with the
\* fields of that render and awaits it.
SaveClicked ==
  /\ keys.mounted /\ Len(keys.saves) < MaxSaves
  /\ keys' = [keys EXCEPT !.saves = Append(@,
       [phase |-> "sent", groq |-> keys.groq, gemini |-> keys.gemini,
        hasGroq |-> keys.hasGroq, hasGemini |-> keys.hasGemini])]
  /\ UNCHANGED <<appVars, ime, widgets>>

\* The backend stores the fields keys_set names; groq || undefined leaves
\* an empty field out.
KeysSetApplied(i) ==
  /\ i \in DOMAIN keys.saves /\ keys.saves[i].phase = "sent"
  /\ keys' = [keys EXCEPT
       !.saves[i].phase = "applied",
       !.vault.groqApiKey =
          IF NonEmpty(keys.saves[i].groq) THEN keys.saves[i].groq ELSE @,
       !.vault.geminiApiKey =
          IF NonEmpty(keys.saves[i].gemini) THEN keys.saves[i].gemini ELSE @]
  /\ UNCHANGED <<appVars, ime, widgets>>

SaveFailedClears(i) ==
  /\ i \in DOMAIN keys.saves /\ keys.saves[i].phase = "sent"
  /\ keys' = [keys EXCEPT !.saves[i].phase = "failed",
                          !.groq = "", !.gemini = ""]
  /\ UNCHANGED <<appVars, ime, widgets>>

\* keys_set rejects: the await throws and save() ends there.
SaveFailed(i) ==
  /\ i \in DOMAIN keys.saves /\ keys.saves[i].phase = "sent"
  /\ keys' = [keys EXCEPT !.saves[i].phase = "failed"]
  /\ UNCHANGED <<appVars, ime, widgets>>

SaveDoneFromState(i) ==
  /\ i \in DOMAIN keys.saves /\ keys.saves[i].phase = "applied"
  /\ keys' = [keys EXCEPT
       !.saves[i].phase = "done",
       !.hasGroq = NonEmpty(keys.saves[i].groq) \/ keys.hasGroq,
       !.hasGemini = NonEmpty(keys.saves[i].gemini) \/ keys.hasGemini,
       !.groq = "", !.gemini = "",
       !.typed = [groq |-> "", gemini |-> ""],
       !.bySave = @ \cup {f \in {"groq", "gemini"} :
                            NonEmpty(keys.saves[i][f])}]
  /\ UNCHANGED <<appVars, ime, widgets>>

\* keys_set resolved: the rest of save() runs with the values of the render
\* the button was clicked in.
SaveDone(i) ==
  /\ i \in DOMAIN keys.saves /\ keys.saves[i].phase = "applied"
  /\ keys' = [keys EXCEPT
       !.saves[i].phase = "done",
       !.hasGroq = NonEmpty(keys.saves[i].groq) \/ keys.saves[i].hasGroq,
       !.hasGemini = NonEmpty(keys.saves[i].gemini) \/ keys.saves[i].hasGemini,
       !.groq = "", !.gemini = "",
       !.typed = [groq |-> "", gemini |-> ""],
       !.bySave = @ \cup {f \in {"groq", "gemini"} :
                            NonEmpty(keys.saves[i][f])}]
  /\ UNCHANGED <<appVars, ime, widgets>>

KeysSpecInit ==
  /\ AppInit
  /\ net = NetInit(FALSE)
  /\ stopIssued = Untracked
  /\ \E g \in Secrets, m \in Secrets :
        keys = KeysPanelInit([groqApiKey |-> g, geminiApiKey |-> m])
  /\ ime = ImeInit
  /\ WidgetsInit

KeysAnswered == \E preview \in BOOLEAN : KeysGetAnswered(preview)
KeysTyped == \E text \in Texts : TypeGroq(text) \/ TypeGemini(text)
KeysStored == \E i \in 1..MaxSaves : KeysSetApplied(i)
KeysSaved == \E i \in 1..MaxSaves : SaveDone(i)
KeysSaveFailed == \E i \in 1..MaxSaves : SaveFailed(i)

\* The panel reads nothing of the settings record, which is followed here
\* only as far as the loading gate: settings_get answers with the defaults
\* or fails.
KeysNext ==
  \/ SettingsLoaded(DEFAULTS)
  \/ SettingsLoadFailed
  \/ KeysMounted
  \/ KeysAnswered
  \/ KeysGetFailed
  \/ KeysLoaded
  \/ KeysTyped
  \/ SaveClicked
  \/ KeysStored
  \/ KeysSaved
  \/ KeysSaveFailed

KeysSpec == KeysSpecInit /\ [][KeysNext]_vars

----------------------------------------------------------------------------
\* The Android voice keyboard

\* Bound of ImeSpec: recognizer callbacks delivered.
MaxEvents == 4

\* What getStringArrayList(RESULTS_RECOGNITION) can return: null, or a
\* list of candidates, possibly empty.  null and the empty list give the
\* same text.
Candidates ==
  {<<>>, <<"konnichiwa">>, <<"arigatou", "konnichiwa">>, <<"">>}

ErrorCodes == {"2", "7"}
Connections == {"fieldA", "fieldB"}

\* list?.firstOrNull().orEmpty()
FirstOrEmpty(list) == IF list = <<>> THEN "" ELSE Head(list)

imeFrame == <<appVars, keys, widgets>>

\* onCreateInputView: the view, the SpeechController and its listener.
CreateInputView ==
  /\ ~ime.created
  /\ ime' = [ime EXCEPT !.created = TRUE]
  /\ UNCHANGED imeFrame

\* The framework binds the keyboard to a text field, or to none.
InputConnectionChanged(c) ==
  /\ ime.conn # c
  /\ ime' = [ime EXCEPT !.conn = c]
  /\ UNCHANGED imeFrame

\* ACTION_DOWN -> speech.start()
MicDown ==
  /\ ime.created /\ ~ime.destroyed /\ ~ime.pressed
  /\ ime' = [ime EXCEPT !.pressed = TRUE, !.listening = TRUE]
  /\ UNCHANGED imeFrame

\* ACTION_UP, ACTION_CANCEL -> speech.stop(): the recognizer stops taking
\* audio and still delivers what it recognized.
MicUp ==
  /\ ime.created /\ ~ime.destroyed /\ ime.pressed
  /\ ime' = [ime EXCEPT !.pressed = FALSE]
  /\ UNCHANGED imeFrame

\* onDestroy: speech.destroy(), after which no callback is delivered.
OnDestroy ==
  /\ ime.created /\ ~ime.destroyed
  /\ ime' = [ime EXCEPT !.destroyed = TRUE, !.pressed = FALSE,
                        !.listening = FALSE]
  /\ UNCHANGED imeFrame

OnPartialResultsCommits(list) ==
  /\ ime.listening /\ Len(ime.events) < MaxEvents
  /\ ime' = [ime EXCEPT
       !.events = Append(@, "partial"),
       !.preview = IF FirstOrEmpty(list) # ""
                   THEN [kind |-> "text", text |-> FirstOrEmpty(list)] ELSE @,
       !.committed = IF ime.conn # NoConnection /\ FirstOrEmpty(list) # ""
                     THEN Append(@, [to |-> ime.conn, text |-> FirstOrEmpty(list)])
                     ELSE @]
  /\ UNCHANGED imeFrame

\* onPartialResults: if (text.isNotEmpty()) onPartial(text), and
\* onPartial = { text -> preview.text = text }.
OnPartialResults(list) ==
  /\ ime.listening /\ Len(ime.events) < MaxEvents
  /\ ime' = [ime EXCEPT
       !.events = Append(@, "partial"),
       !.preview = IF FirstOrEmpty(list) # ""
                   THEN [kind |-> "text", text |-> FirstOrEmpty(list)] ELSE @]
  /\ UNCHANGED imeFrame

\* onResults: onFinal(text), which sets the preview and commits the text
\* to the current input connection if there is one.
OnResults(list) ==
  /\ ime.listening /\ Len(ime.events) < MaxEvents
  /\ ime' = [ime EXCEPT
       !.events = Append(@, "final"),
       !.listening = FALSE,
       !.preview = [kind |-> "text", text |-> FirstOrEmpty(list)],
       !.committed = IF ime.conn # NoConnection
                     THEN Append(@, [to |-> ime.conn, text |-> FirstOrEmpty(list)])
                     ELSE @]
  /\ UNCHANGED imeFrame

\* onError: the preview shows the error code.
OnError(code) ==
  /\ ime.listening /\ Len(ime.events) < MaxEvents
  /\ ime' = [ime EXCEPT
       !.events = Append(@, "error"),
       !.listening = FALSE,
       !.preview = [kind |-> "error", text |-> code]]
  /\ UNCHANGED imeFrame

ImeFocus == \E c \in Connections \cup {NoConnection} : InputConnectionChanged(c)
ImePartial == \E list \in Candidates : OnPartialResults(list)
ImeFinal == \E list \in Candidates : OnResults(list)
ImeError == \E code \in ErrorCodes : OnError(code)

ImeNext ==
  \/ CreateInputView
  \/ ImeFocus
  \/ MicDown
  \/ MicUp
  \/ OnDestroy
  \/ ImePartial
  \/ ImeFinal
  \/ ImeError

ImeSpec == Init /\ [][ImeNext]_vars

\* C26: a final result commits its text once to the input connection of
\* that moment (nothing when there is none); a partial result and an error
\* commit nothing, and a partial result touches nothing but the preview.
C26_OnlyFinalCommitsOnce ==
  [][/\ \A list \in Candidates :
          /\ OnResults(list) =>
                ime'.committed =
                  IF ime.conn # NoConnection
                  THEN Append(ime.committed,
                              [to |-> ime.conn, text |-> FirstOrEmpty(list)])
                  ELSE ime.committed
          /\ OnPartialResults(list) =>
                /\ ime'.committed = ime.committed
                /\ ime'.conn = ime.conn /\ ime'.listening = ime.listening
     /\ \A code \in ErrorCodes :
          OnError(code) => ime'.committed = ime.committed]_vars

\* A partial result, an error and a final result were delivered with a
\* text field connected, and the one final result is the one commit.
C26_Witness ==
  /\ ime.events = <<"partial", "error", "partial", "final">>
  /\ ime.conn = "fieldA"
  /\ ime.committed = <<[to |-> "fieldA", text |-> "arigatou"]>>
  /\ ime.preview = [kind |-> "text", text |-> "arigatou"]

----------------------------------------------------------------------------
\* Properties of the KeysPanel component

\* C23: a save with only one of the two fields filled sets that field's
\* presence boolean to true and leaves the presence boolean of the field
\* left empty as it was.
C23_SaveTouchesOnlyFilledField ==
  [][\A i \in 1..MaxSaves : SaveDone(i) =>
       /\ (NonEmpty(keys.saves[i].groq) /\ ~NonEmpty(keys.saves[i].gemini))
            => (keys'.hasGroq /\ keys'.hasGemini = keys.hasGemini)
       /\ (NonEmpty(keys.saves[i].gemini) /\ ~NonEmpty(keys.saves[i].groq))
            => (keys'.hasGemini /\ keys'.hasGroq = keys.hasGroq)]_vars

C30_SavedStaysSet ==
  /\ "groq" \in keys.bySave => keys.hasGroq
  /\ "gemini" \in keys.bySave => keys.hasGemini

----------------------------------------------------------------------------
\* C27: every stop issued while the phase is recording moves the controller
\* out of recording in the end, also when it is issued before getUserMedia
\* of the preceding start has resolved.
C27_StopLeavesRecording ==
  (stopIssued = "yes" /\ pttState = "recording") ~> (pttState # "recording")

----------------------------------------------------------------------------
\* The service worker

\* Bound of SwSpec: fetch events handled.
MaxRequests == 2

Methods == {"GET", "POST", "HEAD"}
Urls == {"/", "/assets/index.js"}
Statuses == {"200", "404"}

\* Nothing of the repository writes into the cache 'ptt-cache-v1': what it
\* holds was put there from outside.
Caches == SUBSET Urls

swFrame == <<appVars, keys, ime, timer, pomo>>

\* 'install' -> self.skipWaiting()
SwInstall ==
  /\ sw.state = "parsed"
  /\ sw' = [sw EXCEPT !.state = "installed"]
  /\ UNCHANGED swFrame

\* 'activate' -> self.clients.claim(); from here on the worker gets the
\* fetch events of its clients.
SwActivate ==
  /\ sw.state = "installed"
  /\ sw' = [sw EXCEPT !.state = "activated"]
  /\ UNCHANGED swFrame

NewRequest(method, url, phase, outcome) ==
  [method |-> method, url |-> url, phase |-> phase, net |-> "none",
   consulted |-> FALSE, outcome |-> outcome, status |-> "none"]

FetchEventCacheFirst(method, url) ==
  /\ sw.state = "activated" /\ Len(sw.reqs) < MaxRequests
  /\ sw' = [sw EXCEPT !.reqs = Append(@,
       IF method # "GET" THEN NewRequest(method, url, "done", "default")
       ELSE IF url \in sw.cache
            THEN [NewRequest(method, url, "done", "cache")
                   EXCEPT !.consulted = TRUE]
            ELSE NewRequest(method, url, "fetching", "none"))]
  /\ UNCHANGED swFrame

\* 'fetch': a request that is not a GET is left to the browser; for a GET
\* the handler answers with its async function, which starts with
\* fetch(e.request).
FetchEvent(method, url) ==
  /\ sw.state = "activated" /\ Len(sw.reqs) < MaxRequests
  /\ sw' = [sw EXCEPT !.reqs = Append(@,
       IF method # "GET" THEN NewRequest(method, url, "done", "default")
       ELSE NewRequest(method, url, "fetching", "none"))]
  /\ UNCHANGED swFrame

NetworkRespondedCaches(i, status) ==
  /\ i \in DOMAIN sw.reqs /\ sw.reqs[i].phase = "fetching"
  /\ sw' = [sw EXCEPT !.reqs[i].phase = "done", !.reqs[i].net = "ok",
                      !.reqs[i].outcome = "network",
                      !.reqs[i].status = status,
                      !.cache = @ \cup {sw.reqs[i].url}]
  /\ UNCHANGED swFrame

\* fetch resolves, with whatever status: return await fetch(e.request).
NetworkResponded(i, status) ==
  /\ i \in DOMAIN sw.reqs /\ sw.reqs[i].phase = "fetching"
  /\ sw' = [sw EXCEPT !.reqs[i].phase = "done", !.reqs[i].net = "ok",
                      !.reqs[i].outcome = "network",
                      !.reqs[i].status = status]
  /\ UNCHANGED swFrame

\* fetch rejects: the catch block opens the cache and looks the request up.
NetworkFailed(i) ==
  /\ i \in DOMAIN sw.reqs /\ sw.reqs[i].phase = "fetching"
  /\ sw' = [sw EXCEPT !.reqs[i].phase = "matching", !.reqs[i].net = "failed",
                      !.reqs[i].consulted = TRUE]
  /\ UNCHANGED swFrame

\* cache.match answers: if (res) return res, else throw new Error('offline').
CacheMatched(i) ==
  /\ i \in DOMAIN sw.reqs /\ sw.reqs[i].phase = "matching"
  /\ sw' = [sw EXCEPT !.reqs[i].phase = "done",
                      !.reqs[i].outcome =
                         IF sw.reqs[i].url \in sw.cache THEN "cache"
                         ELSE "failed"]
  /\ UNCHANGED swFrame

SwSpecInit ==
  /\ AppInit
  /\ net = NetInit(FALSE)
  /\ stopIssued = Untracked
  /\ keys = KeysInit
  /\ ime = ImeInit
  /\ \E cache \in Caches : sw = SwInit(cache)
  /\ timer = TimerInit
  /\ pomo = PomoInit(NoStats)

SwFetch == \E method \in Methods, url \in Urls : FetchEvent(method, url)
SwResponded ==
  \E i \in 1..MaxRequests, status \in Statuses : NetworkResponded(i, status)
SwOffline == \E i \in 1..MaxRequests : NetworkFailed(i)
SwMatched == \E i \in 1..MaxRequests : CacheMatched(i)

SwNext ==
  \/ SwInstall
  \/ SwActivate
  \/ SwFetch
  \/ SwResponded
  \/ SwOffline
  \/ SwMatched

SwSpec == SwSpecInit /\ [][SwNext]_vars

C32_HandlersNeverWriteCache ==
  /\ sw.cache = sw.cache0
  /\ \A i \in DOMAIN sw.reqs :
       (sw.reqs[i].net = "failed" /\ sw.reqs[i].outcome \notin {"none", "failed"})
          => sw.reqs[i].url \in sw.cache0

\* A GET was answered by the network and the same GET then failed offline:
\* the first answer was not kept.
C32_Witness ==
  /\ Len(sw.reqs) = 2 /\ sw.cache = {}
  /\ sw.reqs[1].url = "/" /\ sw.reqs[1].outcome = "network"
  /\ sw.reqs[1].status = "200"
  /\ sw.reqs[2].url = "/" /\ sw.reqs[2].outcome = "failed"

----------------------------------------------------------------------------
\* Numbers and input texts of the two timer widgets

\* What the value of a number input can be in the model: empty, or one of
\* a few numerals.
InputTexts == {"", "0", "1", "2", "-1"}

\* parseInt of an input's value.
ParseInt(text) ==
  CASE text = "" -> NaN
    [] text = "0" -> 0
    [] text = "1" -> 1
    [] text = "2" -> 2
    [] text = "-1" -> -1

\* The value an input shows after a number was assigned to it.
ToText(n) ==
  CASE n = 0 -> "0"
    [] n = 1 -> "1"
    [] n = 2 -> "2"
    [] n = -1 -> "-1"

\* x || 0
OrZero(x) == IF x = NaN THEN 0 ELSE x

\* a * 60 + b, which is NaN when a or b is
MinSec(a, b) == IF a = NaN \/ b = NaN THEN NaN ELSE a * 60 + b

\* x <= 0, which is false for NaN
NotPositive(x) == x # NaN /\ x <= 0

\* x--, which leaves NaN
Decrement(x) == IF x = NaN THEN NaN ELSE x - 1

----------------------------------------------------------------------------
\* The countdown timer (Timer)

\* Bound of TimerSpec: completions of the countdown.
MaxAlarms == 2

\* The texts typed into the minute and the second input, and the
\* data-minutes of the preset buttons.
TimerMinuteTexts == {"", "1"}
TimerSecondTexts == {"", "2", "-1"}
PresetMinutes == {1, 2}

timerFrame == <<appVars, keys, ime, sw, pomo>>

\* updateTimeFromInput
UpdateTimeFromInput(t) ==
  LET seconds == MinSec(OrZero(ParseInt(t.minuteInput)),
                        OrZero(ParseInt(t.secondInput)))
  IN [t EXCEPT !.timeLeft = seconds, !.totalTime = seconds]

\* The 'input' events of the two inputs, which a disabled input does not
\* give.
TimerMinuteTyped(text) ==
  /\ ~timer.inputsDisabled /\ timer.minuteInput # text
  /\ timer' = UpdateTimeFromInput([timer EXCEPT !.minuteInput = text])
  /\ UNCHANGED timerFrame

TimerSecondTyped(text) ==
  /\ ~timer.inputsDisabled /\ timer.secondInput # text
  /\ timer' = UpdateTimeFromInput([timer EXCEPT !.secondInput = text])
  /\ UNCHANGED timerFrame

\* A preset button: setTime(minutes * 60).
TimerPreset(minutes) ==
  /\ timer' = [timer EXCEPT !.timeLeft = minutes * 60,
                            !.totalTime = minutes * 60,
                            !.minuteInput = ToText((minutes * 60) \div 60),
                            !.secondInput = ToText((minutes * 60) % 60)]
  /\ timer' # timer
  /\ UNCHANGED timerFrame

\* stop(), and pause(), which has the same body.
TimerStopped(t) ==
  [t EXCEPT !.isRunning = FALSE, !.startDisabled = FALSE,
            !.pauseDisabled = TRUE, !.inputsDisabled = FALSE,
            !.interval = FALSE,
            !.live = IF t.interval THEN @ - 1 ELSE @]

TimerStartAnyTime ==
  /\ timer.notified < MaxAlarms /\ timer.live < 2
  /\ LET t == IF NotPositive(timer.timeLeft)
              THEN UpdateTimeFromInput(timer) ELSE timer
     IN timer' = IF NotPositive(t.timeLeft) THEN t
                 ELSE [t EXCEPT !.isRunning = TRUE, !.startDisabled = TRUE,
                                !.pauseDisabled = FALSE,
                                !.inputsDisabled = TRUE,
                                !.interval = TRUE, !.live = @ + 1]
  /\ timer' # timer
  /\ UNCHANGED timerFrame

TimerStartReloads ==
  /\ ~timer.startDisabled /\ timer.notified < MaxAlarms
  /\ LET t == UpdateTimeFromInput(timer)
     IN timer' = IF NotPositive(t.timeLeft) THEN t
                 ELSE [t EXCEPT !.isRunning = TRUE, !.startDisabled = TRUE,
                                !.pauseDisabled = FALSE,
                                !.inputsDisabled = TRUE,
                                !.interval = TRUE, !.live = @ + 1]
  /\ timer' # timer
  /\ UNCHANGED timerFrame

\* start(): a spent timer is loaded from the inputs; with time left the
\* controls are switched and the interval is set.
TimerStart ==
  /\ ~timer.startDisabled /\ timer.notified < MaxAlarms
  /\ LET t == IF NotPositive(timer.timeLeft)
              THEN UpdateTimeFromInput(timer) ELSE timer
     IN timer' = IF NotPositive(t.timeLeft) THEN t
                 ELSE [t EXCEPT !.isRunning = TRUE, !.startDisabled = TRUE,
                                !.pauseDisabled = FALSE,
                                !.inputsDisabled = TRUE,
                                !.interval = TRUE, !.live = @ + 1]
  /\ timer' # timer
  /\ UNCHANGED timerFrame

\* pause()
TimerPause ==
  /\ ~timer.pauseDisabled
  /\ timer' = TimerStopped(timer)
  /\ UNCHANGED timerFrame

\* reset()
TimerReset ==
  /\ timer' = [TimerStopped(timer) EXCEPT !.timeLeft = 0, !.totalTime = 0,
                                          !.minuteInput = "",
                                          !.secondInput = ""]
  /\ timer' # timer
  /\ UNCHANGED timerFrame

TimerTickRunsOn ==
  /\ timer.live > 0
  /\ timer' = [timer EXCEPT !.timeLeft = Decrement(@)]
  /\ UNCHANGED timerFrame

\* The interval's callback, once a second while an interval is set:
\* timeLeft--, and at zero stop() and showNotification().
TimerTick ==
  /\ timer.live > 0
  /\ LET t == [timer EXCEPT !.timeLeft = Decrement(@)]
     IN timer' = IF NotPositive(t.timeLeft)
                 THEN [TimerStopped(t) EXCEPT !.notified = @ + 1]
                 ELSE t
  /\ UNCHANGED timerFrame

TimerTyped ==
  \/ \E text \in TimerMinuteTexts : TimerMinuteTyped(text)
  \/ \E text \in TimerSecondTexts : TimerSecondTyped(text)
TimerPresetClicked == \E minutes \in PresetMinutes : TimerPreset(minutes)

TimerNext ==
  \/ TimerTyped
  \/ TimerPresetClicked
  \/ TimerStart
  \/ TimerPause
  \/ TimerReset
  \/ TimerTick

TimerSpec == Init /\ [][TimerNext]_vars

\* C33: started with time left, the timer loses exactly one second at each
\* tick and never goes below zero; the tick that reaches zero stops it
\* (isRunning false, the interval cleared, so no further tick) and notifies
\* once, and no other tick notifies.
C33_CountdownStopsAtZero ==
  [][TimerTick =>
       /\ timer.timeLeft > 0
       /\ timer'.timeLeft = timer.timeLeft - 1
       /\ timer'.timeLeft >= 0
       /\ (timer'.timeLeft = 0) =>
            /\ ~timer'.isRunning /\ ~timer'.interval /\ timer'.live = 0
            /\ timer'.notified = timer.notified + 1
       /\ (timer'.timeLeft > 0) =>
            /\ timer'.isRunning /\ timer'.notified = timer.notified]_vars

\* A countdown of the two seconds typed in ran to zero and notified once.
C33_Witness ==
  /\ timer.totalTime = 2 /\ timer.timeLeft = 0 /\ timer.notified = 1
  /\ ~timer.isRunning /\ timer.live = 0

----------------------------------------------------------------------------
\* The Pomodoro timer (ProgrammerTimer)

\* Bound of the Pomodoro timer: sessions completed or skipped in one run.
MaxCompletions == 4

\* this.modes[mode].time
ModeTime(mode) ==
  CASE mode = "pomodoro" -> 25 * 60
    [] mode = "short-break" -> 5 * 60
    [] mode = "long-break" -> 15 * 60
    [] mode = "custom" -> 25 * 60

Modes == {"pomodoro", "short-break", "long-break", "custom"}

\* this.totalSessions
TotalSessions == 4

\* The texts typed into the second input of the custom time; the minute
\* input is left empty or zero.
PomoMinuteTexts == {"", "0"}
PomoSecondTexts == {"", "2"}

\* What localStorage can hold under 'programmerTimerStats' when the page
\* is opened: nothing, statistics of today, statistics of an earlier day.
PomoStorages ==
  {NoStats,
   [date |-> "today", focusTime |-> 1500, completedSessions |-> 1],
   [date |-> "earlier", focusTime |-> 3000, completedSessions |-> 2]}

pomoFrame == <<appVars, keys, ime, sw, timer>>

\* stop(), and pause(), which has the same body.
PomoStopped(p) ==
  [p EXCEPT !.isRunning = FALSE, !.startDisabled = FALSE,
            !.pauseDisabled = TRUE, !.skipDisabled = TRUE,
            !.inputsDisabled = FALSE, !.interval = FALSE,
            !.live = IF p.interval THEN @ - 1 ELSE @]

\* The time reset() and setMode() load: the inputs in custom mode, the
\* mode's time otherwise.
LoadedTime(p) ==
  IF p.currentMode = "custom"
  THEN MinSec(ParseInt(p.minuteInput), ParseInt(p.secondInput))
  ELSE ModeTime(p.currentMode)

PomoResetKeepsRunning(p) ==
  [p EXCEPT !.timeLeft = LoadedTime(p), !.totalTime = LoadedTime(p)]

\* reset()
PomoReset(p) ==
  [PomoStopped(p) EXCEPT !.timeLeft = LoadedTime(p),
                         !.totalTime = LoadedTime(p)]

\* setMode(mode), which ends with reset().
SetMode(p, mode) == PomoReset([p EXCEPT !.currentMode = mode])

\* saveStats()
SaveStats(p) ==
  [p EXCEPT !.storage = [date |-> "today", focusTime |-> p.todayFocusTime,
                         completedSessions |-> p.completedSessions]]

CompleteSessionByElapsed(p) ==
  LET q == PomoStopped(p)
  IN IF q.currentMode = "pomodoro"
     THEN LET r == SaveStats([q EXCEPT
                     !.completedSessions = @ + 1,
                     !.todayFocusTime = @ + (q.totalTime - q.timeLeft)])
          IN SetMode(r, IF r.completedSessions % 4 = 0 THEN "long-break"
                        ELSE "short-break")
     ELSE [SetMode(q, "pomodoro") EXCEPT !.sessionCount = @ + 1]

CompleteSessionOldCount(p) ==
  LET q == PomoStopped(p)
  IN IF q.currentMode = "pomodoro"
     THEN LET r == SaveStats([q EXCEPT
                     !.completedSessions = @ + 1,
                     !.todayFocusTime = @ + ModeTime("pomodoro")])
          IN SetMode(r, IF q.completedSessions % 4 = 0 THEN "long-break"
                        ELSE "short-break")
     ELSE [SetMode(q, "pomodoro") EXCEPT !.sessionCount = @ + 1]

\* completeSession()
CompleteSession(p) ==
  LET q == PomoStopped(p)
  IN IF q.currentMode = "pomodoro"
     THEN LET r == SaveStats([q EXCEPT
                     !.completedSessions = @ + 1,
                     !.todayFocusTime = @ + ModeTime("pomodoro")])
          IN SetMode(r, IF r.completedSessions % 4 = 0 THEN "long-break"
                        ELSE "short-break")
     ELSE [SetMode(q, "pomodoro") EXCEPT !.sessionCount = @ + 1]

\* Fewer sessions than the bound were completed: every completion raises
\* completedSessions or sessionCount.
CanComplete(p) ==
  (p.completedSessions - p.loaded.completedSessions)
     + (p.sessionCount - 1) < MaxCompletions

\* A mode button: setMode(btn.dataset.mode).
PomoModeClicked(mode) ==
  /\ pomo' = SetMode(pomo, mode)
  /\ pomo' # pomo
  /\ UNCHANGED pomoFrame

\* The 'input' events of the two inputs: updateCustomTime().
UpdateCustomTime(p) ==
  IF p.currentMode = "custom"
  THEN LET seconds == MinSec(OrZero(ParseInt(p.minuteInput)),
                             OrZero(ParseInt(p.secondInput)))
       IN [p EXCEPT !.timeLeft = seconds, !.totalTime = seconds]
  ELSE p

PomoMinuteTyped(text) ==
  /\ ~pomo.inputsDisabled /\ pomo.minuteInput # text
  /\ pomo' = UpdateCustomTime([pomo EXCEPT !.minuteInput = text])
  /\ UNCHANGED pomoFrame

PomoSecondTyped(text) ==
  /\ ~pomo.inputsDisabled /\ pomo.secondInput # text
  /\ pomo' = UpdateCustomTime([pomo EXCEPT !.secondInput = text])
  /\ UNCHANGED pomoFrame

\* start(): nothing with no time left; else the controls are switched and
\* the interval is set.
PomoStart ==
  /\ ~pomo.startDisabled
  /\ ~NotPositive(pomo.timeLeft)
  /\ pomo' = [pomo EXCEPT !.isRunning = TRUE, !.startDisabled = TRUE,
                          !.pauseDisabled = FALSE, !.skipDisabled = FALSE,
                          !.inputsDisabled = TRUE,
                          !.interval = TRUE, !.live = @ + 1]
  /\ UNCHANGED pomoFrame

\* pause()
PomoPause ==
  /\ ~pomo.pauseDisabled
  /\ pomo' = PomoStopped(pomo)
  /\ UNCHANGED pomoFrame

\* The reset button: reset().
PomoResetClicked ==
  /\ pomo' = PomoReset(pomo)
  /\ pomo' # pomo
  /\ UNCHANGED pomoFrame

\* The skip button: skip(), which is completeSession().
PomoSkip ==
  /\ ~pomo.skipDisabled /\ CanComplete(pomo)
  /\ pomo' = CompleteSession(pomo)
  /\ UNCHANGED pomoFrame

\* The interval's callback: timeLeft--, and at zero completeSession().
PomoTick ==
  /\ pomo.live > 0
  /\ LET p == [pomo EXCEPT !.timeLeft = Decrement(@)]
     IN IF NotPositive(p.timeLeft)
        THEN CanComplete(p) /\ pomo' = CompleteSession(p)
        ELSE pomo' = p
  /\ UNCHANGED pomoFrame

PomoTyped ==
  \/ \E text \in PomoMinuteTexts : PomoMinuteTyped(text)
  \/ \E text \in PomoSecondTexts : PomoSecondTyped(text)
PomoModeChosen == \E mode \in Modes : PomoModeClicked(mode)

\* The two widgets bind the same element ids (minutes, startBtn, ...), so a
\* page holds one of them: a run drives the countdown timer while the
\* Pomodoro timer is as constructed, or the other way round.
TimerPage == \E storage \in PomoStorages : pomo = PomoInit(storage)
PomoPage == timer = TimerInit

TimersInit ==
  /\ AppInit
  /\ net = NetInit(FALSE)
  /\ stopIssued = Untracked
  /\ keys = KeysInit
  /\ ime = ImeInit
  /\ sw = SwInit({})
  /\ timer = TimerInit
  /\ \E storage \in PomoStorages : pomo = PomoInit(storage)

TimersNext ==
  \/ TimerPage /\ TimerTyped
  \/ TimerPage /\ TimerPresetClicked
  \/ TimerPage /\ TimerStart
  \/ TimerPage /\ TimerPause
  \/ TimerPage /\ TimerReset
  \/ TimerPage /\ TimerTick
  \/ PomoPage /\ PomoTyped
  \/ PomoPage /\ PomoModeChosen
  \/ PomoPage /\ PomoStart
  \/ PomoPage /\ PomoPause
  \/ PomoPage /\ PomoResetClicked
  \/ PomoPage /\ PomoSkip
  \/ PomoPage /\ PomoTick

TimersSpec == TimersInit /\ [][TimersNext]_vars

----------------------------------------------------------------------------
\* Properties of the two timers

\* C34: in both timers isRunning is true exactly when an interval is
\* active, at most one interval is active, and the start button is disabled
\* whenever one is.
C34_RunningIffOneInterval ==
  /\ timer.isRunning <=> timer.live > 0
  /\ timer.interval <=> timer.live > 0
  /\ timer.live <= 1
  /\ timer.live > 0 => timer.startDisabled
  /\ pomo.isRunning <=> pomo.live > 0
  /\ pomo.interval <=> pomo.live > 0
  /\ pomo.live <= 1
  /\ pomo.live > 0 => pomo.startDisabled

\* The Pomodoro timer runs in custom mode on a time typed into the inputs.
C34_Witness ==
  /\ pomo.currentMode = "custom" /\ pomo.isRunning /\ pomo.live = 1
  /\ pomo.startDisabled /\ pomo.timeLeft = 1 /\ pomo.totalTime = 2

\* C35: in both timers pause leaves timeLeft and totalTime as they are and
\* stops the ticking, and start with time left keeps timeLeft and totalTime
\* (it loads nothing from the inputs or the mode).
C35_PauseKeepsTimeLeft ==
  [][/\ TimerPause => /\ timer'.timeLeft = timer.timeLeft
                      /\ timer'.totalTime = timer.totalTime
                      /\ ~timer'.isRunning /\ timer'.live = 0
     /\ (TimerStart /\ timer.timeLeft > 0) =>
           /\ timer'.timeLeft = timer.timeLeft
           /\ timer'.totalTime = timer.totalTime
           /\ timer'.isRunning
     /\ PomoPause => /\ pomo'.timeLeft = pomo.timeLeft
                     /\ pomo'.totalTime = pomo.totalTime
                     /\ ~pomo'.isRunning /\ pomo'.live = 0
     /\ (PomoStart /\ pomo.timeLeft > 0) =>
           /\ pomo'.timeLeft = pomo.timeLeft
           /\ pomo'.totalTime = pomo.totalTime
           /\ pomo'.isRunning]_vars

\* The countdown timer was paused one second into a countdown of 62: it
\* holds 61 seconds, which is not what its inputs would load.
C35_Witness ==
  /\ ~timer.isRunning /\ timer.live = 0 /\ ~timer.startDisabled
  /\ timer.totalTime = 62 /\ timer.timeLeft = 61
  /\ timer.minuteInput = "1" /\ timer.secondInput = "2"

\* A step that completes a session: the skip button, or the tick that
\* brings timeLeft to zero.
Completing ==
  \/ PomoSkip
  \/ PomoTick /\ NotPositive(Decrement(pomo.timeLeft))

\* C36: completing or skipping a session in pomodoro mode adds 1 to
\* completedSessions and switches to long-break exactly when the new
\* completedSessions is a multiple of 4, to short-break otherwise;
\* completing a session in another mode switches to pomodoro, adds 1 to
\* sessionCount and leaves completedSessions as it is.
C36_CompletionAdvancesCycle ==
  [][Completing =>
       IF pomo.currentMode = "pomodoro"
       THEN /\ pomo'.completedSessions = pomo.completedSessions + 1
            /\ pomo'.currentMode =
                 IF pomo'.completedSessions % 4 = 0 THEN "long-break"
                 ELSE "short-break"
       ELSE /\ pomo'.currentMode = "pomodoro"
            /\ pomo'.sessionCount = pomo.sessionCount + 1
            /\ pomo'.completedSessions = pomo.completedSessions]_vars

\* The fourth pomodoro of the day was completed after a break was: the
\* timer is in long-break.
C36_Witness ==
  /\ pomo.completedSessions = 4 /\ pomo.currentMode = "long-break"
  /\ pomo.sessionCount = 2 /\ pomo.loaded.completedSessions = 1

\* C37: after completeSession, after setMode to a mode other than custom
\* and after reset in a mode other than custom, the timer is stopped and
\* timeLeft = totalTime = the time of the current mode, one of 1500, 300
\* and 900 seconds.
C37_ModeTimeLoadedAndStopped ==
  [][(\/ Completing
      \/ \E mode \in Modes \ {"custom"} : PomoModeClicked(mode)
      \/ PomoResetClicked /\ pomo.currentMode # "custom") =>
       /\ ~pomo'.isRunning /\ ~pomo'.interval /\ pomo'.live = 0
       /\ pomo'.currentMode # "custom"
       /\ pomo'.timeLeft = ModeTime(pomo'.currentMode)
       /\ pomo'.totalTime = ModeTime(pomo'.currentMode)
       /\ pomo'.timeLeft \in {1500, 300, 900}]_vars

\* The long break was chosen with its button.
C37_Witness ==
  /\ pomo.currentMode = "long-break" /\ ~pomo.isRunning
  /\ pomo.timeLeft = 900 /\ pomo.totalTime = 900
  /\ pomo.pauseDisabled /\ pomo.completedSessions = 0

\* C38: with statistics that started from zero, todayFocusTime is
\* completedSessions times 1500 seconds, and once a pomodoro was completed
\* the statistics in storage are those in memory.
C38_FocusTimeIsSessionsTimes1500 ==
  (pomo.loaded = [focusTime |-> 0, completedSessions |-> 0]) =>
     /\ pomo.todayFocusTime = pomo.completedSessions * 1500
     /\ pomo.completedSessions > 0 =>
          pomo.storage = [date |-> "today",
                          focusTime |-> pomo.todayFocusTime,
                          completedSessions |-> pomo.completedSessions]

\* Two pomodoros and a break were completed from zero.
C38_Witness ==
  /\ pomo.loaded = [focusTime |-> 0, completedSessions |-> 0]
  /\ pomo.completedSessions = 2 /\ pomo.todayFocusTime = 3000
  /\ pomo.storage.focusTime = 3000 /\ pomo.sessionCount = 2

\* C39: sessionCount never exceeds totalSessions.
C39_SessionCountWithinTotal == pomo.sessionCount <= TotalSessions

====
